---- MODULE Spec2Model ----
(***************************************************************************)
(* ses-mail: the routing decision engine (router_enrichment.py), the       *)
(* rule migration script (migrate_routing_rules.py) and the Gmail          *)
(* forwarder's credential-expiration retry protocol (gmail_forwarder.py).  *)
(*                                                                         *)
(* Python strings that the code lower-cases, splits or compares are        *)
(* sequences of one-character strings, so that str.lower(), str.split()    *)
(* and == are computed and not assumed.  Python's None is a value of its   *)
(* own for each type it stands in for.                                     *)
(***************************************************************************)
EXTENDS Integers, Sequences, FiniteSets, TLC

VARIABLES
    ssmParameter,            \* SSM /ses-mail/<env>/integration-test-token
    integration_test_token,  \* router_enrichment._integration_test_token
    table,                   \* DynamoDB routing table: rule key -> item
    cache,                   \* lru_cache of lookup_routing_rule
    ruleWrites,              \* external writes to the table so far
    pc,                      \* which router entry point returned last
    msg,                     \* the SES message of the last call
    expected_token,          \* check_spam's expected_token in the last call
    spam,                    \* check_spam's return value in the last call
    results,                 \* decide_action's returned list
    raised,                  \* the exception decide_action raised, or NoError
    lookups,                 \* keys passed to lookup_routing_rule in the last call
    db_outcome,              \* how dynamodb.get_item behaved in the last call
                             \* ("ok" also when it was not called)
    RETRY_QUEUE_URL,         \* gmail_forwarder.RETRY_QUEUE_URL is set
    batch,                   \* event['Records'] of the forwarder's invocation
    idx,                     \* position of lambda_handler's loop over the records
    record_results,          \* lambda_handler's results list
    delivery_error,          \* per record, the error its processing failed with
    gmail_imports,           \* per record, the imports into Gmail that succeeded
    retry_queue,             \* messages sent to the retry queue
    queue_failed,            \* records for which queue_for_retry raised
    batchItemFailures,       \* the batchItemFailures of the handler's response
    events_to_publish,       \* router lambda_handler's events_to_publish
    success_count,           \* router lambda_handler's success_count
    failure_count,           \* router lambda_handler's failure_count
    tagging,                 \* decide_action's tagging of the stored object
    publishing,              \* lambda_handler's put_events and how it ended
    fn_arg,                  \* the argument of the last call of a pure function
    fn_ret                   \* what that call returned

gateVars == <<ssmParameter, integration_test_token, expected_token, spam>>
routerVars == <<table, cache, ruleWrites, results, raised, lookups, db_outcome>>
forwarderVars == <<RETRY_QUEUE_URL, batch, idx, record_results, delivery_error,
                   gmail_imports, retry_queue, queue_failed, batchItemFailures>>
handlerVars == <<events_to_publish, success_count, failure_count, tagging,
                 publishing>>
pureVars == <<fn_arg, fn_ret>>
vars == <<ssmParameter, integration_test_token, table, cache, ruleWrites, pc,
          msg, expected_token, spam, results, raised, lookups, db_outcome,
          RETRY_QUEUE_URL, batch, idx, record_results, delivery_error,
          gmail_imports, retry_queue, queue_failed, batchItemFailures,
          events_to_publish, success_count, failure_count, tagging,
          publishing, fn_arg, fn_ret>>

---------------------------------------------------------------------------
(* Strings *)

UpperChars == <<"A", "B", "C", "D", "E", "F", "G", "H", "I", "J", "K", "L", "M",
                "N", "O", "P", "Q", "R", "S", "T", "U", "V", "W", "X", "Y", "Z">>
LowerChars == <<"a", "b", "c", "d", "e", "f", "g", "h", "i", "j", "k", "l", "m",
                "n", "o", "p", "q", "r", "s", "t", "u", "v", "w", "x", "y", "z">>

\* str.lower() on one character
UpperSet == {UpperChars[i] : i \in DOMAIN UpperChars}
LowerOf == [u \in UpperSet |->
               LowerChars[CHOOSE i \in DOMAIN UpperChars : UpperChars[i] = u]]
LowerChar(c) == IF c \in UpperSet THEN LowerOf[c] ELSE c

\* str.lower()
Lower(s) == [i \in DOMAIN s |-> LowerChar(s[i])]

\* Python's None where a string is expected; no string, since its one
\* element is not a character
None == <<"None">>
\* no pure function has been called
NoCall == <<"no call">>

\* Python truthiness of an Optional[str]
Truthy(s) == s # None /\ s # <<>>

Min(S) == CHOOSE x \in S : \A y \in S : x <= y

---------------------------------------------------------------------------
(* SecurityGate: check_spam and the bypass token *)

TokenHeaderName ==
    <<"x", "-", "i", "n", "t", "e", "g", "r", "a", "t", "i", "o", "n", "-",
      "t", "e", "s", "t", "-", "t", "o", "k", "e", "n">>
TokenHeaderMixed ==
    <<"X", "-", "I", "n", "t", "e", "g", "r", "a", "t", "i", "o", "n", "-",
      "T", "e", "s", "t", "-", "T", "o", "k", "e", "n">>
SubjectHeader == <<"S", "u", "b", "j", "e", "c", "t">>

fail == <<"f", "a", "i", "l">>
FAIL == <<"F", "A", "I", "L">>
PASS == <<"P", "A", "S", "S">>
GRAY == <<"G", "R", "A", "Y">>
\* the verdict statuses SES reports
Statuses == {PASS, FAIL, GRAY}
DmarcPolicies == {"none", "quarantine", "reject"}

\* two tokens that differ only in letter case
Tok == <<"T", "k", "7">>
TokOtherCase == <<"t", "K", "7">>

\* ssm.get_parameter failed (no such parameter, throttling, access denied)
SsmError == <<"SsmError">>
\* the values the parameter may hold; None: the parameter does not exist
SsmValues == {None, <<>>, Tok}

\* _load_integration_test_token: the global is returned once loaded; a
\* failed load returns None and leaves the global unset.
\* got: what ssm.get_parameter gives in this call (a value or SsmError)
load_integration_test_token(cached, got) ==
    IF cached # None
    THEN [token |-> cached, global |-> cached]
    ELSE IF got = SsmError
         THEN [token |-> None, global |-> None]
         ELSE [token |-> got, global |-> got]

\* provided_token == expected_token (Python ==, case-sensitive)
TokenMatchesNoCase(provided_token, expected) ==
    Lower(provided_token) = Lower(expected)
TokenMatches(provided_token, expected) ==
    provided_token = expected

\* header.get('name', '').lower() == 'x-integration-test-token'
IsTokenHeader(header) == Lower(header.name) = TokenHeaderName

\* the header loop of check_spam: only the first header with the name is
\* looked at (a mismatch breaks out of the loop)
BypassGranted(ses_message, expected) ==
    LET headers == ses_message.headers
        hits == {i \in DOMAIN headers : IsTokenHeader(headers[i])}
    IN  /\ Truthy(expected)
        /\ hits # {}
        /\ TokenMatches(headers[Min(hits)].value, expected)

\* the verdict tests of check_spam
VerdictsBlockAnyDmarc(receipt) ==
    \/ Lower(receipt.spamVerdict) = fail
    \/ Lower(receipt.virusVerdict) = fail
    \/ Lower(receipt.dkimVerdict) = fail
    \/ Lower(receipt.spfVerdict) = fail
    \/ Lower(receipt.dmarcVerdict) = fail
VerdictsBlock(receipt) ==
    \/ Lower(receipt.spamVerdict) = fail
    \/ Lower(receipt.virusVerdict) = fail
    \/ Lower(receipt.dkimVerdict) = fail
    \/ Lower(receipt.spfVerdict) = fail
    \/ (Lower(receipt.dmarcVerdict) = fail /\ receipt.dmarcPolicy = "reject")

check_spam(ses_message, expected) ==
    IF BypassGranted(ses_message, expected)
    THEN FALSE
    ELSE VerdictsBlock(ses_message)

---------------------------------------------------------------------------
(* Addresses and lookup keys *)

\* 'c in s'
Contains(s, c) == \E i \in DOMAIN s : s[i] = c

\* index of the first c in s (c occurs in s)
IndexOf(s, c) == Min({i \in DOMAIN s : s[i] = c})

\* s.split(c, 1): the text before and after the first c (c occurs in s)
SplitOnce(s, c) ==
    <<SubSeq(s, 1, IndexOf(s, c) - 1), SubSeq(s, IndexOf(s, c) + 1, Len(s))>>

\* s.split(c)[0]: the text before the first c, all of s without one
SplitFirst(s, c) ==
    IF Contains(s, c) THEN SubSeq(s, 1, IndexOf(s, c) - 1) ELSE s

\* s.split(c)[1]: the text between the first c and the next one
SplitSecond(s, c) == SplitFirst(SplitOnce(s, c)[2], c)

\* the address is returned as it came
normalize_email_address_keeping_tag(email_address) == email_address
normalize_email_address(email_address) ==
    IF ~Contains(email_address, "@")
    THEN email_address
    ELSE LET parts == SplitOnce(email_address, "@")
             local_part == IF Contains(parts[1], "+")
                           THEN SplitFirst(parts[1], "+")
                           ELSE parts[1]
         IN  local_part \o <<"@">> \o parts[2]

\* f"ROUTE#{pattern}"
RoutePrefix == <<"R", "O", "U", "T", "E", "#">>
RouteKey(pattern) == RoutePrefix \o pattern

generate_lookup_keys(email_address) ==
    LET normalized == normalize_email_address(email_address)
    IN  <<RouteKey(email_address)>>
        \o (IF normalized # email_address
            THEN <<RouteKey(normalized)>> ELSE <<>>)
        \o (IF Contains(email_address, "@")
            THEN <<RouteKey(<<"*", "@">> \o SplitSecond(email_address, "@"))>>
            ELSE <<>>)
        \o <<RouteKey(<<"*">>)>>

---------------------------------------------------------------------------
(* RuleStore: DynamoDB items, the migration's convert_rule, and            *)
(* lookup_routing_rule behind its lru_cache                                *)

\* A DynamoDB item is a function from the attribute names it has to their
\* values: 'name in item' is name \in DOMAIN item.
HasAttr(item, name) == name \in DOMAIN item

\* item.get(name, {}).get(<type>, default)
Attr(item, name, default) == IF HasAttr(item, name) THEN item[name] ELSE default

\* response without 'Item'
NoItem == [missing |-> TRUE]

\* the target is carried along even when it is empty
convert_rule_keeping_target(old_item) ==
    [a \in (DOMAIN old_item \ {"action", "target"})
              \cup {"actions", "updated_at"} |->
        IF a = "actions"
        THEN <<[type |-> Attr(old_item, "action", "store"),
                target |-> Attr(old_item, "target", "")]>>
        ELSE IF a = "updated_at" THEN "now"
        ELSE old_item[a]]
\* convert_rule: every attribute but action/target is copied, actions is a
\* one-element list (type defaults to 'store', target only when non-empty)
\* and updated_at is set to the time of the migration
convert_rule(old_item) ==
    LET kept == DOMAIN old_item \ {"action", "target"}
        old_action == Attr(old_item, "action", "store")
        old_target == Attr(old_item, "target", "")
        action_obj == IF old_target # ""
                      THEN [type |-> old_action, target |-> old_target]
                      ELSE [type |-> old_action]
    IN  [a \in kept \cup {"actions", "updated_at"} |->
            IF a = "actions" THEN <<action_obj>>
            ELSE IF a = "updated_at" THEN "now"
            ELSE old_item[a]]

\* legacy {action, target} items
LegacyForward ==
    [action |-> "forward-to-gmail", target |-> "g@gmail.com",
     enabled |-> TRUE, updated_at |-> "t0"]
LegacyForwardDisabled ==
    [action |-> "forward-to-gmail", target |-> "g@gmail.com",
     enabled |-> FALSE, updated_at |-> "t0"]
LegacyJmap ==
    [action |-> "deliver-to-jmap", target |-> "acct",
     enabled |-> TRUE, updated_at |-> "t0"]
\* current actions-list items
MigratedForward == convert_rule(LegacyForward)
ForwardAndStore ==
    [actions |-> <<[type |-> "forward-to-gmail", target |-> "g@gmail.com"],
                   [type |-> "store"]>>,
     enabled |-> TRUE, updated_at |-> "t0"]

\* no item passes for migrated
never_migrated(item) == FALSE
\* is_already_migrated: the item has an 'actions' attribute
is_already_migrated(item) == HasAttr(item, "actions")

\* a live run of migrate_rules in which every put_item succeeds: each rule
\* not yet migrated is replaced by convert_rule of it (every key of the
\* modelled table starts with ROUTE#)
migrate_rules(tbl) ==
    [k \in DOMAIN tbl |->
        IF tbl[k] = [missing |-> TRUE] \/ is_already_migrated(tbl[k])
        THEN tbl[k]
        ELSE convert_rule(tbl[k])]

\* every item passes for a routing rule
is_any_item(pk) == TRUE
\* is_routing_rule: the item's PK starts with ROUTE#
is_routing_rule(pk) ==
    /\ Len(pk) >= Len(RoutePrefix)
    /\ SubSeq(pk, 1, Len(RoutePrefix)) = RoutePrefix

\* migrate_rules' stats dictionary
NoStats ==
    [scanned |-> 0, migrated |-> 0, would_migrate |-> 0,
     already_migrated |-> 0, skipped_non_route |-> 0, errors |-> 0]

\* migrate_rules' loop over the items of one scan page.  page: the keys of
\* the page's items; failing: the keys whose put_item raises ClientError;
\* acc: the table, the stats and the keys put_item was called for so far
RECURSIVE migrate_page(_, _, _, _)
migrate_page(page, dry_run, failing, acc) ==
    IF page = <<>> THEN acc
    ELSE LET pk == Head(page)
             item == acc.table[pk]
             scanned == [acc.stats EXCEPT !.scanned = @ + 1]
             next ==
                 IF ~is_routing_rule(pk)
                 THEN [acc EXCEPT !.stats =
                          [scanned EXCEPT !.skipped_non_route = @ + 1]]
                 ELSE IF is_already_migrated(item)
                 THEN [acc EXCEPT !.stats =
                          [scanned EXCEPT !.already_migrated = @ + 1]]
                 ELSE IF dry_run
                 THEN [acc EXCEPT !.stats =
                          [scanned EXCEPT !.would_migrate = @ + 1]]
                 ELSE IF pk \in failing
                 THEN [acc EXCEPT !.stats = [scanned EXCEPT !.errors = @ + 1],
                                  !.put_item = Append(@, pk)]
                 ELSE [table |-> [acc.table EXCEPT ![pk] = convert_rule(item)],
                       stats |-> [scanned EXCEPT !.migrated = @ + 1],
                       put_item |-> Append(acc.put_item, pk)]
         IN  migrate_page(Tail(page), dry_run, failing, next)

\* migrate_rules' while loop: one scan call per page of page_size items,
\* until the response has no LastEvaluatedKey
RECURSIVE scan_pages(_, _, _, _, _)
scan_pages(keys, page_size, dry_run, failing, acc) ==
    LET page == SubSeq(keys, 1, Min({page_size, Len(keys)}))
        rest == SubSeq(keys, Len(page) + 1, Len(keys))
        done == migrate_page(page, dry_run, failing, acc)
    IN  IF rest = <<>> THEN done
        ELSE scan_pages(rest, page_size, dry_run, failing, done)

\* migrate_rules(dynamodb_client, table_name, dry_run) for a table tbl whose
\* scan yields its items in the order scan_order of their keys
migrate_rules_run(tbl, scan_order, page_size, dry_run, failing) ==
    scan_pages(SelectSeq(scan_order, LAMBDA k : tbl[k] # NoItem), page_size,
               dry_run, failing,
               [table |-> tbl, stats |-> NoStats, put_item |-> <<>>])

\* the items a rule key may hold
ItemSet == {LegacyForward, LegacyForwardDisabled, LegacyJmap,
            MigratedForward, ForwardAndStore}

\* lookup_routing_rule returned None
NoRule == [none |-> TRUE]

NoError == "NoError"
\* what dynamodb.get_item does during one invocation: answers, fails with a
\* ClientError other than ResourceNotFoundException (throttling, ...), or
\* fails with ResourceNotFoundException
DbOutcomes == {"ok", "ClientError", "ResourceNotFoundException"}

\* the item -> rule conversion of lookup_routing_rule; of the rule's seven
\* fields, the three that get_routing_decision reads
RuleOfItem(item) ==
    [action  |-> Attr(item, "action", "bounce"),
     target  |-> Attr(item, "target", ""),
     enabled |-> Attr(item, "enabled", TRUE)]

\* dynamodb.get_item(Key={PK: route_key, SK: RULE#v1})
GetItem(tbl, route_key) ==
    IF route_key \in DOMAIN tbl THEN tbl[route_key] ELSE NoItem

\* the body of lookup_routing_rule (a cache miss)
lookup_uncached(route_key, tbl, db) ==
    IF db = "ResourceNotFoundException"
    THEN [rule |-> NoRule, exc |-> "ResourceNotFoundException"]
    ELSE IF db = "ClientError"
    THEN [rule |-> NoRule, exc |-> NoError]
    ELSE IF GetItem(tbl, route_key) = NoItem
    THEN [rule |-> NoRule, exc |-> NoError]
    ELSE [rule |-> RuleOfItem(GetItem(tbl, route_key)), exc |-> NoError]

\* @lru_cache(maxsize=32): a returned value (None included) is kept for the
\* life of the process, an exception is not.  c: the cache, a function from
\* the keys it holds.  The model has fewer than 32 keys: nothing is evicted.
lookup_routing_rule(c, route_key, tbl, db) ==
    IF route_key \in DOMAIN c
    THEN [cache |-> c, rule |-> c[route_key], exc |-> NoError]
    ELSE LET r == lookup_uncached(route_key, tbl, db)
         IN  IF r.exc # NoError
             THEN [cache |-> c, rule |-> NoRule, exc |-> r.exc]
             ELSE [cache |-> c @@ (route_key :> r.rule),
                   rule |-> r.rule, exc |-> NoError]

---------------------------------------------------------------------------
(* RoutingEngine: get_routing_decision and decide_action *)

\* get_routing_decision's third result when no rule matched
NoLookupKey == None
\* a target of None
NoDestination == "None"

RECURSIVE try_lookup_keys(_, _, _, _, _)
\* the loop of get_routing_decision over lookup_keys; seen: the keys handed
\* to lookup_routing_rule so far
try_lookup_keys(c, lookup_keys, tbl, db, seen) ==
    IF lookup_keys = <<>>
    THEN [cache |-> c, exc |-> NoError, lookups |-> seen,
          action |-> "store", target |-> NoDestination,
          lookup_key |-> NoLookupKey]
    ELSE LET r == lookup_routing_rule(c, Head(lookup_keys), tbl, db)
             seen1 == Append(seen, Head(lookup_keys))
         IN  IF r.exc # NoError
             THEN [cache |-> r.cache, exc |-> r.exc, lookups |-> seen1,
                   action |-> "store", target |-> NoDestination,
                   lookup_key |-> NoLookupKey]
             ELSE IF r.rule # NoRule /\ r.rule.enabled
             THEN [cache |-> r.cache, exc |-> NoError, lookups |-> seen1,
                   action |-> r.rule.action, target |-> r.rule.target,
                   lookup_key |-> Head(lookup_keys)]
             ELSE try_lookup_keys(r.cache, Tail(lookup_keys), tbl, db, seen1)

get_routing_decision(c, recipient, tbl, db) ==
    try_lookup_keys(c, generate_lookup_keys(recipient), tbl, db, <<>>)

\* the keys of decide_action's counts dictionary
CountedActions == {"forward-to-gmail", "store", "bounce"}

\* the result decide_action appends for one recipient that is not blocked
RoutedResult(target, d) ==
    IF d.action = "bounce"
    THEN [action |-> "bounce", target |-> target, reason |-> "policy"]
    ELSE [action |-> d.action, target |-> target, destination |-> d.target]

\* the result decide_action appends for one recipient of a blocked message
SecurityResultAsPolicy(target) ==
    [action |-> "bounce", target |-> target, reason |-> "policy"]
SecurityResult(target) ==
    [action |-> "bounce", target |-> target, reason |-> "security"]

RECURSIVE decide_recipients(_, _, _, _, _, _, _)
\* the loop of decide_action over receipt.recipients; acc: results so far
decide_recipients(bounce, recipients, c, tbl, db, acc, seen) ==
    IF recipients = <<>>
    THEN [cache |-> c, exc |-> NoError, results |-> acc, lookups |-> seen]
    ELSE IF bounce
    THEN decide_recipients(bounce, Tail(recipients), c, tbl, db,
                           Append(acc, SecurityResult(Head(recipients))), seen)
    ELSE LET d == get_routing_decision(c, Head(recipients), tbl, db)
         IN  IF d.exc # NoError
             THEN [cache |-> d.cache, exc |-> d.exc, results |-> <<>>,
                   lookups |-> seen \o d.lookups]
             ELSE IF d.action \notin CountedActions
             THEN \* counts[results[-1][0]] += 1
                  [cache |-> d.cache, exc |-> "KeyError", results |-> <<>>,
                   lookups |-> seen \o d.lookups]
             ELSE decide_recipients(bounce, Tail(recipients), d.cache, tbl, db,
                                    Append(acc, RoutedResult(Head(recipients), d)),
                                    seen \o d.lookups)

\* A result (action_type, dest) of decide_action is one record: its action
\* field is action_type, its other fields are the dictionary dest.
DestOf(result) == [f \in DOMAIN result \ {"action"} |-> result[f]]

\* lambda_handler's aggregation of decide_action's results by action type
\* (dest is a dictionary that is never empty)
aggregate_actions(routing_results) ==
    [a \in CountedActions |->
        LET hits == SelectSeq(routing_results, LAMBDA r : r.action = a)
        IN  [count |-> Len(hits),
             targets |-> [i \in DOMAIN hits |-> DestOf(hits[i])]]]

\* the enriched event lambda_handler appends for one SNS record
enriched_event(ses_message, routing_results) ==
    [ses |-> ses_message, actions |-> aggregate_actions(routing_results)]

\* decide_action up to the end of its loop over the recipients
decide_action(ses_message, expected, c, tbl, db) ==
    decide_recipients(check_spam(ses_message, expected),
                      ses_message.recipients, c, tbl, db, <<>>, <<>>)

---------------------------------------------------------------------------
(* Audit tags (router_enrichment.py: sanitize_tag_value, tag_s3_object) *)

\* sanitize_tag_value's default max_length
DEFAULT_MAX_LENGTH == 256
DigitChars == <<"0", "1", "2", "3", "4", "5", "6", "7", "8", "9">>
\* set('abc...xyzABC...XYZ0123456789 +-=._:/@')
allowed_chars ==
    {LowerChars[i] : i \in DOMAIN LowerChars}
    \cup {UpperChars[i] : i \in DOMAIN UpperChars}
    \cup {DigitChars[i] : i \in DOMAIN DigitChars}
    \cup {" ", "+", "-", "=", ".", "_", ":", "/", "@"}
\* what \s of the re module matches
WhitespaceChars == {" ", "\t", "\n", "\r", "\f"}

\* the literal "(empty)"
EmptyTag == <<"(", "e", "m", "p", "t", "y", ")">>
\* the literal "..."
Ellipsis == <<".", ".", ".">>

\* ''.join(c if c in allowed_chars else '_' for c in value_str)
ReplaceDisallowed(value_str) ==
    [i \in DOMAIN value_str |->
        IF value_str[i] \in allowed_chars THEN value_str[i] ELSE "_"]

\* re.sub(r'[_\s]+', '_', sanitized): a character of a run is dropped when
\* the one before it belongs to the run too
InRun(c) == c = "_" \/ c \in WhitespaceChars
RECURSIVE CollapseRuns(_, _)
CollapseRuns(sanitized, i) ==
    IF i > Len(sanitized) THEN <<>>
    ELSE IF ~InRun(sanitized[i])
    THEN <<sanitized[i]>> \o CollapseRuns(sanitized, i + 1)
    ELSE IF i > 1 /\ InRun(sanitized[i - 1])
    THEN CollapseRuns(sanitized, i + 1)
    ELSE <<"_">> \o CollapseRuns(sanitized, i + 1)

\* str.strip(chars); chars = WhitespaceChars for strip()
Strip(sanitized, chars) ==
    LET keep == {i \in DOMAIN sanitized : sanitized[i] \notin chars}
    IN  IF keep = {} THEN <<>>
        ELSE SubSeq(sanitized, Min(keep), CHOOSE i \in keep : \A j \in keep : j <= i)

\* sanitized[:stop], for a stop of either sign
SliceTo(sanitized, stop) ==
    IF stop >= 0
    THEN SubSeq(sanitized, 1, Min({stop, Len(sanitized)}))
    ELSE SubSeq(sanitized, 1, Len(sanitized) + stop)

sanitize_tag_value(value, max_length) ==
    IF value = None \/ value = <<>>
    THEN EmptyTag
    ELSE LET stripped == Strip(Strip(CollapseRuns(ReplaceDisallowed(value), 1),
                                     {"_"}), WhitespaceChars)
             sanitized == IF Len(stripped) > max_length
                          THEN SliceTo(stripped, max_length - 3) \o Ellipsis
                          ELSE stripped
         IN  IF sanitized = <<>> THEN EmptyTag ELSE sanitized

\* the action types and the rule targets as texts
TextOf ==
    [t \in {"forward-to-gmail", "store", "bounce", "g@gmail.com", "acct"} |->
        CASE t = "forward-to-gmail" ->
                 <<"f", "o", "r", "w", "a", "r", "d", "-", "t", "o", "-",
                   "g", "m", "a", "i", "l">>
          [] t = "store" -> <<"s", "t", "o", "r", "e">>
          [] t = "bounce" -> <<"b", "o", "u", "n", "c", "e">>
          [] t = "g@gmail.com" ->
                 <<"g", "@", "g", "m", "a", "i", "l", ".", "c", "o", "m">>
          [] t = "acct" -> <<"a", "c", "c", "t">>]

\* sep.join(words)
RECURSIVE Join(_, _)
Join(words, sep) ==
    IF words = <<>> THEN <<>>
    ELSE IF Len(words) = 1 THEN words[1]
    ELSE words[1] \o sep \o Join(Tail(words), sep)

\* destination_info.get('destination') or destination_info.get('target', '')
target_value(result) ==
    IF /\ "destination" \in DOMAIN result
       /\ result.destination \notin {NoDestination, ""}
    THEN TextOf[result.destination]
    ELSE result.target

\* the tags of routing_tags that depend on the routing (messageId, sender,
\* subject and the four fixed tags are left out)
NoTags == [recipient |-> None, action |-> None, target |-> None]
routing_tags(ses_message, routing_results) ==
    [recipient |-> sanitize_tag_value(Join(ses_message.recipients, <<" ">>),
                                      DEFAULT_MAX_LENGTH),
     action |-> sanitize_tag_value(
                    Join([i \in DOMAIN routing_results |-> TextOf[routing_results[i].action]],
                         <<" ">>), DEFAULT_MAX_LENGTH),
     target |-> sanitize_tag_value(
                    Join([i \in DOMAIN routing_results |-> target_value(routing_results[i])],
                         <<" ">>), DEFAULT_MAX_LENGTH)]

\* The message has no S3 location (extract_s3_info returned None), or how
\* s3.put_object_tagging ends: well, with the ClientError NoSuchKey, with
\* another ClientError, or with an exception that is no ClientError
TagOutcomes == {"not stored", "ok", "NoSuchKey", "AccessDenied",
                "EndpointConnectionError"}
\* tag_s3_object: the exception that leaves it, NoError for none
tag_s3_object(tag) == IF tag \in {"ok", "NoSuchKey"} THEN NoError ELSE tag

\* the exception is raised on
tagging_reraised(tag_error) == tag_error
\* what leaves decide_action's try/except around tag_s3_object
tagging_caught(tag_error) == NoError

NotTagged ==
    [routing_tags |-> NoTags, put_object_tagging |-> "not called",
     put_metric_data |-> "not called", S3TaggingFailures |-> 0]

\* decide_action from the end of its loop (r: what the loop produced) to
\* its return.  metric: cloudwatch.put_metric_data succeeds
tag_and_return(r, ses_message, tag, metric) ==
    IF r.exc # NoError \/ tag = "not stored"
    THEN [exc |-> r.exc, results |-> r.results, tagging |-> NotTagged]
    ELSE LET tag_error == tag_s3_object(tag)
         IN  [exc |-> IF tag_error = NoError THEN NoError
                      ELSE tagging_caught(tag_error),
              results |-> IF tag_error = NoError
                             \/ tagging_caught(tag_error) = NoError
                          THEN r.results ELSE <<>>,
              tagging |->
                  [routing_tags |-> routing_tags(ses_message, r.results),
                   put_object_tagging |-> tag,
                   put_metric_data |-> IF tag_error = NoError THEN "not called"
                                       ELSE IF metric THEN "ok" ELSE "failed",
                   S3TaggingFailures |-> IF tag_error # NoError /\ metric
                                         THEN 1 ELSE 0]]

\* How eventbridge.put_events ends: every entry accepted, the entry
\* rejected (FailedEntryCount 1), or an exception
BusOutcomes == {"ok", "FailedEntry", "exception"}
NotPublished == [put_events |-> "not called", accepted |-> 0, response |-> "none"]
\* lambda_handler after its loop, for the outcome bus of put_events:
\* what was accepted, failure_count and how the handler ends
publish_events(events, failures, bus) ==
    IF events = <<>>
    THEN [put_events |-> "not called", accepted |-> 0,
          failure_count |-> failures, response |-> "returned"]
    ELSE IF bus = "ok"
    THEN [put_events |-> bus, accepted |-> Len(events),
          failure_count |-> failures, response |-> "returned"]
    ELSE IF bus = "FailedEntry"
    THEN [put_events |-> bus, accepted |-> Len(events) - 1,
          failure_count |-> failures + 1, response |-> "returned"]
    ELSE [put_events |-> bus, accepted |-> 0,
          failure_count |-> failures + Len(events), response |-> "raised"]

---------------------------------------------------------------------------
(* CredentialGuard: the Gmail forwarder (gmail_forwarder.py) *)

\* An exception: its class, the HTTP status of an HttpError (NoStatus for
\* the others) and whether str(exception).lower() contains one of
\* is_token_expired_error's expiration_keywords.
NoStatus == 0
Exc(cls, status, kw) == [cls |-> cls, status |-> status, kw |-> kw]
\* no exception
NoExc == Exc("none", NoStatus, FALSE)

UNAUTHORIZED == 401
FORBIDDEN == 403
INTERNAL_SERVER_ERROR == 500

\* is_token_expired_error's expiration_keywords, a string being the sequence
\* of its characters
expiration_keywords ==
    <<
      <<"i", "n", "v", "a", "l", "i", "d", "_", "g", "r", "a", "n", "t">>,
      <<"t", "o", "k", "e", "n", " ", "h", "a", "s", " ", "b", "e", "e", "n",
        " ", "e", "x", "p", "i", "r", "e", "d">>,
      <<"t", "o", "k", "e", "n", " ", "e", "x", "p", "i", "r", "e", "d">>,
      <<"i", "n", "v", "a", "l", "i", "d", " ", "c", "r", "e", "d", "e", "n",
        "t", "i", "a", "l", "s">>,
      <<"c", "r", "e", "d", "e", "n", "t", "i", "a", "l", "s", " ", "h", "a",
        "v", "e", " ", "e", "x", "p", "i", "r", "e", "d">>,
      <<"u", "n", "a", "u", "t", "h", "o", "r", "i", "z", "e", "d">>,
      <<"a", "u", "t", "h", "e", "n", "t", "i", "c", "a", "t", "i", "o", "n",
        " ", "f", "a", "i", "l", "e", "d">>
    >>

\* keyword in error_message
IsSubstring(keyword, error_message) ==
    \E i \in 0..(Len(error_message) - Len(keyword)) :
        SubSeq(error_message, i + 1, i + Len(keyword)) = keyword

\* the for loop over expiration_keywords finds one in the message as written
KeywordInMessageAsWritten(message) ==
    \E j \in DOMAIN expiration_keywords :
        IsSubstring(expiration_keywords[j], message)
\* the for loop over expiration_keywords finds one in str(exception).lower()
KeywordInMessage(message) ==
    \E j \in DOMAIN expiration_keywords :
        IsSubstring(expiration_keywords[j], Lower(message))

\* the exception of class cls and HTTP status whose str() is message
Raised(cls, status, message) == Exc(cls, status, KeywordInMessage(message))

is_token_expired_error(exception) ==
    \/ exception.cls = "RefreshError"
    \/ (exception.cls = "HttpError" /\ exception.status \in {UNAUTHORIZED, FORBIDDEN})
    \/ exception.kw

\* raise RuntimeError(f"...: {e}"): the message of e is kept inside the new
\* message, its class and its status are not
WrapRuntimeError(e) == Exc("RuntimeError", NoStatus, e.kw)

\* build_gmail_service: whatever fails inside is re-raised as RuntimeError
build_gmail_service(e) == IF e = NoExc THEN NoExc ELSE WrapRuntimeError(e)

\* fetch_raw_email_from_s3: a ClientError is re-raised as RuntimeError
fetch_raw_email_from_s3(e) ==
    IF e.cls = "ClientError" THEN WrapRuntimeError(e) ELSE e

\* gmail_import: an HttpError of execute() is re-raised as RuntimeError,
\* anything else passes
gmail_import(e) ==
    IF e.cls = "HttpError" THEN WrapRuntimeError(e) ELSE e

\* the classes of process_sqs_record's except clause (JSONDecodeError is a
\* ValueError)
CaughtClasses ==
    {"RuntimeError", "ValueError", "HttpError", "ClientError",
     "JSONDecodeError", "RefreshError"}

\* queue_for_retry returns (otherwise it raises RuntimeError): the queue URL
\* is set and send_message succeeded
queue_for_retry(url, sent) == url /\ sent

\* The body of an SQS record is the text EventBridge delivered: the JSON
\* value it spells and the way it is spelt.  json.loads keeps the value
\* only, json.dumps spells a value in its own way.
json_loads(body) == body.detail
json_dumps(value) == [detail |-> value, formatting |-> "json.dumps"]

\* the attempt_count of the error_context both callers of queue_for_retry
\* build
FirstAttempt == 1
\* The message queue_for_retry hands to send_message for the record at
\* position i of the batch: message_body, message_attributes (request_id is
\* the caller's) and, for the record of which message is which, i.
RetryMessageReserialised(record, i, request_id) ==
    [MessageBody |-> json_dumps(json_loads(record.body)),
     MessageAttributes |-> [original_timestamp |-> "now",
                            error_type |-> "token_expired",
                            original_lambda_request_id |-> request_id,
                            attempt_count |-> FirstAttempt],
     record |-> i]
RetryMessage(record, i, request_id) ==
    [MessageBody |-> record.body,
     MessageAttributes |-> [original_timestamp |-> "now",
                            error_type |-> "token_expired",
                            original_lambda_request_id |-> request_id,
                            attempt_count |-> FirstAttempt],
     record |-> i]

\* detail.actions['forward-to-gmail'].targets of a record
targets_of(record) == json_loads(record.body).targets

\* the first exception among the import outcomes of a record's targets
FirstFailure(outs) ==
    IF \A j \in DOMAIN outs : outs[j] = NoExc
    THEN NoExc
    ELSE outs[Min({j \in DOMAIN outs : outs[j] # NoExc})]

\* the targets imported before the first failure
ImportsDone(outs) ==
    IF \A j \in DOMAIN outs : outs[j] = NoExc
    THEN Len(outs)
    ELSE Min({j \in DOMAIN outs : outs[j] # NoExc}) - 1

\* process_sqs_record.  s3: what s3.get_object raises (NoExc: nothing);
\* outs: what the Gmail import raises, target after target, up to the first
\* failure; sent: send_message to the retry queue succeeds.  origin: the
\* exception where it arose; error:
\* the exception as the except clause sees it; escaped: no except clause of
\* process_sqs_record matched it.
process_sqs_record(record, s3, outs, sent, url) ==
    LET origin == IF targets_of(record) = 0
                  THEN Exc("ValueError", NoStatus, FALSE)
                  ELSE IF s3 # NoExc THEN s3
                  ELSE FirstFailure(outs)
        error == IF targets_of(record) = 0 THEN origin
                 ELSE IF s3 # NoExc THEN fetch_raw_email_from_s3(s3)
                 ELSE gmail_import(origin)
        imports == IF targets_of(record) = 0 \/ s3 # NoExc
                   THEN 0 ELSE ImportsDone(outs)
        base == [origin |-> origin, error |-> error, imports |-> imports,
                 escaped |-> FALSE, queued |-> FALSE, queue_raised |-> FALSE,
                 result |-> [status |-> "ok", action |-> "delivered"]]
    IN  IF error = NoExc
        THEN base
        ELSE IF error.cls \notin CaughtClasses
        THEN [base EXCEPT !.escaped = TRUE,
                          !.result = [status |-> "none", action |-> "none"]]
        ELSE IF is_token_expired_error(error)
        THEN IF queue_for_retry(url, sent)
             THEN [base EXCEPT !.queued = TRUE,
                               !.result = [status |-> "ok",
                                           action |-> "queued_for_retry"]]
             ELSE [base EXCEPT !.queue_raised = TRUE,
                               !.result = [status |-> "error", action |-> "none"]]
        ELSE [base EXCEPT !.result = [status |-> "error", action |-> "none"]]

\* lambda_handler's except clause for a token expiration error: every
\* record of the event is queued for retry; sentAll[i]: send_message
\* succeeds for record i
RECURSIVE QueueAll(_, _, _, _, _)
QueueAll(i, records, url, sentAll, acc) ==
    IF i > Len(records)
    THEN acc
    ELSE IF queue_for_retry(url, sentAll[i])
    THEN QueueAll(i + 1, records, url, sentAll,
                  [acc EXCEPT !.queue =
                      Append(@, RetryMessage(records[i], i, "aws_request_id"))])
    ELSE QueueAll(i + 1, records, url, sentAll,
                  [acc EXCEPT !.failures = Append(@, i),
                              !.raised = @ \cup {i}])

\* no result is reported, whatever its status
FailuresOfNone(rs, i) == <<>>
\* the receipt handles of the results with status error
RECURSIVE FailuresOf(_, _)
FailuresOf(rs, i) ==
    IF i > Len(rs) THEN <<>>
    ELSE (IF rs[i].status = "error" THEN <<i>> ELSE <<>>) \o FailuresOf(rs, i + 1)

---------------------------------------------------------------------------
(* The bouncer (bouncer.py) *)

\* the keys of process_bounce_request's bounce_reasons dictionary
bounce_reasons == {"auth-fail", "policy"}

\* the first target whose send_email fails, 0 when none does
FirstFailing(targets, send) == IF send = "ok" \/ targets = <<>> THEN 0 ELSE 1

\* process_bounce_request(message, sqs_message_id).  message: detail with
\* the bounce batch (targets) and whether the sender's address can be
\* extracted (sender); subsegment: xray_recorder.begin_subsegment returned
\* a subsegment; send: how ses_client.send_email ends.  Result: the
\* exception that leaves the function and the recipients a bounce was sent
\* for.
process_bounce_request(message, subsegment, send) ==
    LET targets == message.detail.actions["bounce"].targets
    IN  IF targets = <<>>
        THEN [exc |-> NoError, sent |-> <<>>]
        ELSE IF ~message.detail.sender
        THEN [exc |-> "ValueError", sent |-> <<>>]
        ELSE IF /\ subsegment
                /\ \E i \in DOMAIN targets :
                      targets[i].reason \notin bounce_reasons
        THEN [exc |-> "KeyError", sent |-> <<>>]
        ELSE IF FirstFailing(targets, send) # 0
        THEN [exc |-> "ClientError",
              sent |-> [i \in 1..(FirstFailing(targets, send) - 1) |->
                           targets[i].target]]
        ELSE [exc |-> NoError,
              sent |-> [i \in DOMAIN targets |-> targets[i].target]]

\* bouncer.lambda_handler: the records that failed, by position, and what
\* was sent for each record
bouncer_lambda_handler(records, subsegment, send) ==
    LET done == [i \in DOMAIN records |->
                    process_bounce_request(records[i], subsegment, send)]
    IN  [batchItemFailures |->
             SelectSeq([i \in DOMAIN records |-> i],
                       LAMBDA i : done[i].exc # NoError),
         raised |-> [i \in DOMAIN records |-> done[i].exc],
         sent |-> [i \in DOMAIN records |-> done[i].sent]]

---------------------------------------------------------------------------
(* Bounds and input sets *)

MaxRecipients == 2
MaxHeaders == 2
MaxRuleWrites == 2
MaxRecords == 2
MaxTargets == 1
MaxAttempts == 1
MaxAddressLen == 4
MaxPartLen == 2
MaxValueLen == 4
MaxTagLength == 8
MaxPageSize == 2
MaxBounceRecords == 2
MaxBounceTargets == 2

AddrTagged == <<"a", "+", "t", "@", "x">>
AddrPlain == <<"a", "@", "x">>
Recipients == {AddrTagged, AddrPlain}

\* the keys under which the table may hold a rule
RuleKeys == {RouteKey(AddrTagged), RouteKey(AddrPlain),
             RouteKey(<<"*", "@", "x">>), RouteKey(<<"*">>)}

SeqsUpTo(S, n) == UNION {[1..k -> S] : k \in 0..n}

Headers == {[name |-> TokenHeaderMixed, value |-> Tok],
            [name |-> TokenHeaderName, value |-> TokOtherCase],
            [name |-> SubjectHeader, value |-> Tok]}

\* an SES message: mail.headers, receipt.recipients and the receipt verdicts
Message(recipients, headers, spamV, virusV, dkimV, spfV, dmarcV, policy) ==
    [recipients |-> recipients, headers |-> headers,
     spamVerdict |-> spamV, virusVerdict |-> virusV, dkimVerdict |-> dkimV,
     spfVerdict |-> spfV, dmarcVerdict |-> dmarcV, dmarcPolicy |-> policy]

NoMessage == Message(<<>>, <<>>, PASS, PASS, PASS, PASS, PASS, "none")

\* the messages check_spam is called with
GateMessages ==
    {Message(<<AddrPlain>>, h, v[1], v[2], v[3], v[4], v[5], p) :
        h \in SeqsUpTo(Headers, MaxHeaders),
        v \in [1..5 -> Statuses], p \in DmarcPolicies}

\* the messages decide_action is called with: clean, spam, and spam
\* carrying the bypass token
RouterMessages ==
    {Message(r, <<>>, s, PASS, PASS, PASS, PASS, "none") :
        r \in SeqsUpTo(Recipients, MaxRecipients) \ {<<>>}, s \in {PASS, FAIL}}
    \cup
    {Message(<<r>>, <<[name |-> TokenHeaderMixed, value |-> Tok]>>,
             FAIL, PASS, PASS, PASS, PASS, "none") : r \in Recipients}

\* an SQS record: the number of forward-to-gmail targets of its message
\* the body EventBridge delivers for an enriched event of n targets
Body(n) == [detail |-> [targets |-> n], formatting |-> "EventBridge"]
\* The records of a batch.  attempt: the attempt_count of the retry-queue
\* message the record was replayed from, 0 for a record that was never on
\* the retry queue.  The replayed record is one that has a target and has
\* been on the retry queue MaxAttempts times.
Records ==
    {[body |-> Body(n), attempt |-> 0] : n \in 0..MaxTargets}
    \cup {[body |-> Body(1), attempt |-> MaxAttempts]}
Batches == SeqsUpTo(Records, MaxRecords) \ {<<>>}

\* what the Gmail API call of one target raises: nothing, an HttpError, a
\* RefreshError of the credentials' refresh, or a transport error (timeout)
ApiOutcomes ==
    {NoExc, Exc("RefreshError", NoStatus, FALSE)}
    \cup {Exc("HttpError", st, kw) :
             st \in {UNAUTHORIZED, FORBIDDEN, INTERNAL_SERVER_ERROR},
             kw \in BOOLEAN}
    \cup {Exc("OSError", NoStatus, kw) : kw \in BOOLEAN}

\* the import calls made for n targets: one per target, up to the first
\* that fails
TargetRuns(n) ==
    {outs \in SeqsUpTo(ApiOutcomes, n) :
        /\ \A j \in 1..(Len(outs) - 1) : outs[j] = NoExc
        /\ Len(outs) < n => (outs # <<>> /\ outs[Len(outs)] # NoExc)}

\* what s3.get_object raises
S3Outcomes == {NoExc} \cup {Exc("ClientError", NoStatus, kw) : kw \in BOOLEAN}

\* what fails inside build_gmail_service
BuildOutcomes == {NoExc} \cup {Exc("Exception", NoStatus, kw) : kw \in BOOLEAN}

\* what ssm.get_parameter can give: the parameter's value, or an error
SsmOutcomes(parameter) ==
    IF parameter = None THEN {SsmError} ELSE {parameter, SsmError}

---------------------------------------------------------------------------
(* Actions *)

\* the strings handed to normalize_email_address: every string of letters,
\* '+' and '@' up to MaxAddressLen, and the addresses local+tag@domain and
\* local@domain for every local part and tag without '@' and every domain
\* up to MaxPartLen
AddressChars == {"a", "b", "+", "@"}
AddressStrings == SeqsUpTo(AddressChars, MaxAddressLen)
LocalStrings == SeqsUpTo(AddressChars \ {"@"}, MaxPartLen)
DomainStrings == SeqsUpTo(AddressChars, MaxPartLen)
TaggedAddress(local, tag, domain) == local \o <<"+">> \o tag \o <<"@">> \o domain
PlainAddress(local, domain) == local \o <<"@">> \o domain

\* The messages on the bouncer queue: the router's event for results of up
\* to MaxBounceTargets bounces, blocked (security) or by rule (policy),
\* with or without a usable sender address
BounceResults ==
    SeqsUpTo({SecurityResult(AddrPlain),
              RoutedResult(AddrPlain, [action |-> "bounce", target |-> ""])},
             MaxBounceTargets)
BounceMessages ==
    {[detail |-> [actions |-> aggregate_actions(rs), sender |-> f]] :
        rs \in BounceResults, f \in BOOLEAN}

\* The table the migration runs over: two rules and an SMTP credentials
\* item; a key holds no item, a legacy rule (forward with target, store
\* with an empty target), a migrated rule, or, the credentials, an item
\* of other attributes
SmtpUserKey == <<"S", "M", "T", "P", "_", "U", "S", "E", "R", "#", "u">>
MigrateKeys == {RouteKey(AddrPlain), RouteKey(AddrTagged), SmtpUserKey}
LegacyStore ==
    [action |-> "store", target |-> "", enabled |-> TRUE, updated_at |-> "t0"]
MigrateTables ==
    {tbl \in [MigrateKeys ->
                 {NoItem, LegacyForward, LegacyStore, MigratedForward,
                  [username |-> "u"]}] :
        \A k \in MigrateKeys :
            (tbl[k] = [username |-> "u"]) => k = SmtpUserKey}
ScanOrders ==
    {o \in [1..Cardinality(MigrateKeys) -> MigrateKeys] :
        \A i, j \in DOMAIN o : o[i] = o[j] => i = j}

\* the legacy items handed to convert_rule: an action, a target that is
\* missing, empty or an address, and further attributes
Without(item, name) == [a \in DOMAIN item \ {name} |-> item[a]]
LegacyItems ==
    LET full == [action : {"forward-to-gmail", "store", "bounce"},
                 target : {"", "g@gmail.com"},
                 enabled : BOOLEAN,
                 description : {"d"},
                 updated_at : {"t0"}]
    IN  full \cup {Without(i, "target") : i \in full}
             \cup {Without(i, "description") : i \in full}
             \cup {Without(Without(i, "action"), "updated_at") : i \in full}

\* the values handed to sanitize_tag_value: None and every string up to
\* MaxValueLen of a letter, a space, an underscore and a character that is
\* not allowed; max_length is the default or a length up to MaxTagLength
TagValueChars == {"a", " ", "_", "!"}
TagValues == {None} \cup SeqsUpTo(TagValueChars, MaxValueLen)
MaxLengths == (0..MaxTagLength) \cup {DEFAULT_MAX_LENGTH}

\* messages for is_token_expired_error: every keyword in lower case, in
\* upper case, capitalised and inside a longer message, and messages that
\* come close to a keyword without containing one
UpperOf == [l \in {LowerChars[i] : i \in DOMAIN LowerChars} |->
               UpperChars[CHOOSE i \in DOMAIN LowerChars : LowerChars[i] = l]]
UpperChar(c) == IF c \in DOMAIN UpperOf THEN UpperOf[c] ELSE c
Upper(s) == [i \in DOMAIN s |-> UpperChar(s[i])]
Capitalised(s) == [i \in DOMAIN s |-> IF i = 1 THEN UpperChar(s[i]) ELSE s[i]]
MsgPrefix == <<"E", "r", "r", "o", "r", ":", " ">>
MsgSuffix == <<".">>
NearMisses ==
    {<<>>,
     <<"i", "n", "v", "a", "l", "i", "d", " ", "g", "r", "a", "n", "t">>,
     <<"t", "o", "k", "e", "n", " ", "e", "x", "p", "i", "r", "e">>,
     <<"B", "a", "d", " ", "R", "e", "q", "u", "e", "s", "t">>,
     <<"u", "n", "a", "u", "t", "h", "o", "r", "i", "s", "e", "d">>,
     <<"a", "u", "t", "h", "e", "n", "t", "i", "c", "a", "t", "i", "o", "n",
       " ", " ", "f", "a", "i", "l", "e", "d">>,
     <<"c", "r", "e", "d", "e", "n", "t", "i", "a", "l", "s", " ", "e", "x",
       "p", "i", "r", "e", "d">>,
     <<"N", "o", "S", "u", "c", "h", "K", "e", "y">>}
KeywordMessages ==
    UNION {{expiration_keywords[j], Upper(expiration_keywords[j]),
            Capitalised(expiration_keywords[j]),
            MsgPrefix \o Upper(expiration_keywords[j]) \o MsgSuffix} :
           j \in DOMAIN expiration_keywords}
ExceptionMessages == KeywordMessages \cup NearMisses
\* the exceptions handed to is_token_expired_error
ClassifyInputs ==
    {[cls |-> c, status |-> NoStatus, message |-> t] :
        c \in {"RefreshError", "RuntimeError", "ValueError", "ClientError"},
        t \in ExceptionMessages}
    \cup {[cls |-> "HttpError", status |-> st, message |-> t] :
            st \in {UNAUTHORIZED, FORBIDDEN, INTERNAL_SERVER_ERROR},
            t \in ExceptionMessages}


\* one call of check_spam
CheckSpamCall(m, got) ==
    /\ pc = "idle"
    /\ LET ld == load_integration_test_token(integration_test_token, got)
       IN  /\ integration_test_token' = ld.global
           /\ expected_token' = ld.token
           /\ spam' = check_spam(m, ld.token)
    /\ msg' = m
    /\ pc' = "check_spam"
    /\ UNCHANGED <<pureVars, handlerVars, ssmParameter, routerVars, forwarderVars>>

\* router_enrichment.lambda_handler for an event of one SNS record: one
\* call of decide_action, the rule table being the same throughout, the
\* enriched event or the except clause, then put_events.  results and raised
\* are what decide_action returned and raised, events_to_publish what was
\* handed to put_events; success_count and failure_count are the counts at
\* the handler's end.
DecideAction(m, got, db, tag, metric, bus) ==
    /\ pc = "idle"
    /\ \E ld \in {load_integration_test_token(integration_test_token, got)} :
       \E r \in {decide_action(m, ld.token, cache, table, db)} :
       \E t \in {tag_and_return(r, m, tag, metric)} :
       \E events \in {IF t.exc = NoError
                      THEN <<enriched_event(m, t.results)>> ELSE <<>>} :
       \E pub \in {publish_events(events, IF t.exc = NoError THEN 0 ELSE 1,
                                   bus)} :
           /\ integration_test_token' = ld.global
           /\ expected_token' = ld.token
           /\ spam' = check_spam(m, ld.token)
           /\ cache' = r.cache
           /\ results' = t.results
           /\ raised' = t.exc
           /\ lookups' = r.lookups
           /\ db_outcome' = IF \E i \in DOMAIN r.lookups :
                                     r.lookups[i] \notin DOMAIN cache
                              THEN db ELSE "ok"
           /\ tagging' = t.tagging
           /\ events_to_publish' = events
           /\ success_count' = IF t.exc = NoError THEN 1 ELSE 0
           /\ failure_count' = pub.failure_count
           /\ publishing' = [put_events |-> pub.put_events,
                             accepted |-> pub.accepted,
                             response |-> pub.response]
    /\ msg' = m
    /\ pc' = "decide_action"
    /\ UNCHANGED <<pureVars, ssmParameter, table, ruleWrites, forwarderVars>>

\* the call's message and results are discarded; the process (its globals
\* and its lru_cache) lives on
Finish ==
    /\ pc # "idle"
    /\ pc' = "idle"
    /\ msg' = NoMessage
    /\ expected_token' = None
    /\ spam' = FALSE
    /\ results' = <<>>
    /\ raised' = NoError
    /\ lookups' = <<>>
    /\ db_outcome' = "ok"
    /\ events_to_publish' = <<>>
    /\ success_count' = 0
    /\ failure_count' = 0
    /\ tagging' = NotTagged
    /\ publishing' = NotPublished
    /\ fn_arg' = NoCall
    /\ fn_ret' = NoCall
    /\ UNCHANGED <<ssmParameter, integration_test_token, table, cache,
                   ruleWrites, forwarderVars>>

\* somebody else writes a rule between two invocations
PutRule(k, item) ==
    /\ pc = "idle"
    /\ ruleWrites < MaxRuleWrites
    /\ table[k] # item
    /\ table' = [table EXCEPT ![k] = item]
    /\ ruleWrites' = ruleWrites + 1
    /\ UNCHANGED <<pureVars, handlerVars, gateVars, cache, pc, msg, results,
                   raised, lookups, db_outcome, forwarderVars>>

\* somebody else deletes a rule between two invocations
DeleteRule(k) ==
    /\ pc = "idle"
    /\ ruleWrites < MaxRuleWrites
    /\ table[k] # NoItem
    /\ table' = [table EXCEPT ![k] = NoItem]
    /\ ruleWrites' = ruleWrites + 1
    /\ UNCHANGED <<pureVars, handlerVars, gateVars, cache, pc, msg, results,
                   raised, lookups, db_outcome, forwarderVars>>

\* gmail_forwarder.lambda_handler up to its loop: build_gmail_service,
\* and the except clause when that fails
ForwarderInvoke(rs, b, sentAll) ==
    /\ pc = "idle"
    /\ batch' = rs
    /\ record_results' = <<>>
    /\ delivery_error' = [i \in DOMAIN rs |-> NoExc]
    /\ gmail_imports' = [i \in DOMAIN rs |-> 0]
    /\ idx' = 1
    /\ \E e \in {build_gmail_service(b)},
          q \in {QueueAll(1, rs, RETRY_QUEUE_URL, sentAll,
                          [queue |-> <<>>, failures |-> <<>>, raised |-> {}])} :
           IF e = NoExc
           THEN /\ pc' = "records"
                /\ retry_queue' = <<>>
                /\ queue_failed' = {}
                /\ batchItemFailures' = <<>>
           ELSE IF is_token_expired_error(e)
           THEN /\ pc' = "returned"
                /\ retry_queue' = q.queue
                /\ queue_failed' = q.raised
                /\ batchItemFailures' = q.failures
           ELSE /\ pc' = "raised"
                /\ retry_queue' = <<>>
                /\ queue_failed' = {}
                /\ batchItemFailures' = <<>>
    /\ UNCHANGED <<pureVars, handlerVars, gateVars, routerVars, msg,
                   RETRY_QUEUE_URL>>

\* one round of lambda_handler's loop: process_sqs_record for the record
\* at idx, and the handler's except clause when an exception escapes it.
\* sentAll[i]: send_message for record i succeeds in this round (the record's
\* own queue_for_retry and the handler's never both run in one round)
ProcessRecord(s3, outs, sentAll) ==
    /\ pc = "records"
    /\ idx <= Len(batch)
    /\ \E r \in {process_sqs_record(batch[idx], s3, outs, sentAll[idx],
                                     RETRY_QUEUE_URL)},
          q \in {QueueAll(1, batch, RETRY_QUEUE_URL, sentAll,
                          [queue |-> retry_queue, failures |-> <<>>,
                           raised |-> queue_failed])} :
           /\ delivery_error' = [delivery_error EXCEPT ![idx] = r.origin]
           /\ gmail_imports' = [gmail_imports EXCEPT ![idx] = r.imports]
           /\ IF ~r.escaped
              THEN /\ record_results' = Append(record_results, r.result)
                   /\ retry_queue' = IF r.queued
                                     THEN Append(retry_queue,
                                                 RetryMessage(batch[idx], idx,
                                                              "unknown"))
                                     ELSE retry_queue
                   /\ queue_failed' = IF r.queue_raised
                                      THEN queue_failed \cup {idx}
                                      ELSE queue_failed
                   /\ idx' = idx + 1
                   /\ pc' = "records"
                   /\ batchItemFailures' = <<>>
              ELSE IF is_token_expired_error(r.error)
              THEN /\ pc' = "returned"
                   /\ retry_queue' = q.queue
                   /\ queue_failed' = q.raised
                   /\ batchItemFailures' = q.failures
                   /\ UNCHANGED <<record_results, idx>>
              ELSE /\ pc' = "raised"
                   /\ UNCHANGED <<record_results, idx, retry_queue, queue_failed,
                                  batchItemFailures>>
    /\ UNCHANGED <<pureVars, handlerVars, gateVars, routerVars, msg,
                   RETRY_QUEUE_URL, batch>>

\* lambda_handler's return after the loop
ForwarderReturn ==
    /\ pc = "records"
    /\ idx > Len(batch)
    /\ batchItemFailures' = FailuresOf(record_results, 1)
    /\ pc' = "returned"
    /\ UNCHANGED <<pureVars, handlerVars, gateVars, routerVars, msg,
                   RETRY_QUEUE_URL, batch, idx,
                   record_results, delivery_error, gmail_imports, retry_queue,
                   queue_failed>>

\* the invocation is over; the next one starts afresh
ForwarderFinish ==
    /\ pc \in {"returned", "raised"}
    /\ pc' = "idle"
    /\ batch' = <<>>
    /\ idx' = 1
    /\ record_results' = <<>>
    /\ delivery_error' = <<>>
    /\ gmail_imports' = <<>>
    /\ retry_queue' = <<>>
    /\ queue_failed' = {}
    /\ batchItemFailures' = <<>>
    /\ UNCHANGED <<pureVars, handlerVars, gateVars, routerVars, msg,
                   RETRY_QUEUE_URL>>

\* normalize_email_address on a string, and once more on what it returned
NormalizeCall(x) ==
    /\ pc = "idle"
    /\ pc' = "normalize_email_address"
    /\ fn_arg' = x
    /\ fn_ret' = [once |-> normalize_email_address(x),
                  twice |-> normalize_email_address(normalize_email_address(x))]
    /\ UNCHANGED <<handlerVars, gateVars, routerVars, msg, forwarderVars>>

\* normalize_email_address on a tagged address and on the same address
\* without the tag
NormalizeBoth(local, tag, domain) ==
    /\ pc = "idle"
    /\ pc' = "normalize_tagged_and_plain"
    /\ fn_arg' = [local |-> local, tag |-> tag, domain |-> domain]
    /\ fn_ret' = [tagged |-> normalize_email_address(
                                TaggedAddress(local, tag, domain)),
                  plain |-> normalize_email_address(
                                PlainAddress(local, domain))]
    /\ UNCHANGED <<handlerVars, gateVars, routerVars, msg, forwarderVars>>

\* one call of sanitize_tag_value
\* one run of the migration script's migrate_rules
MigrateRules(scan_order, page_size, dry_run, failing) ==
    /\ pc = "idle"
    /\ pc' = "migrate_rules"
    /\ \E run \in {migrate_rules_run(table, scan_order, page_size, dry_run,
                                     failing)} :
          /\ table' = run.table
          /\ fn_ret' = [stats |-> run.stats, put_item |-> run.put_item]
    /\ fn_arg' = [dry_run |-> dry_run, page_size |-> page_size,
                  failing |-> failing]
    /\ UNCHANGED <<handlerVars, gateVars, cache, ruleWrites, results, raised,
                   lookups, db_outcome, msg, forwarderVars>>

\* one invocation of the bouncer for an SQS event of the given records
BouncerInvoke(records, subsegment, send) ==
    /\ pc = "idle"
    /\ pc' = "bouncer"
    /\ fn_arg' = [Records |-> records, subsegment |-> subsegment,
                  send_email |-> send]
    /\ fn_ret' = bouncer_lambda_handler(records, subsegment, send)
    /\ UNCHANGED <<handlerVars, gateVars, routerVars, msg, forwarderVars>>

ConvertCall(old_item) ==
    /\ pc = "idle"
    /\ pc' = "convert_rule"
    /\ fn_arg' = old_item
    /\ fn_ret' = convert_rule(old_item)
    /\ UNCHANGED <<handlerVars, gateVars, routerVars, msg, forwarderVars>>

SanitizeCall(value, max_length) ==
    /\ pc = "idle"
    /\ pc' = "sanitize_tag_value"
    /\ fn_arg' = [value |-> value, max_length |-> max_length]
    /\ fn_ret' = sanitize_tag_value(value, max_length)
    /\ UNCHANGED <<handlerVars, gateVars, routerVars, msg, forwarderVars>>

\* one call of is_token_expired_error
IsTokenExpiredErrorCall(e) ==
    /\ pc = "idle"
    /\ pc' = "is_token_expired_error"
    /\ fn_arg' = e
    /\ fn_ret' = is_token_expired_error(Raised(e.cls, e.status, e.message))
    /\ UNCHANGED <<handlerVars, gateVars, routerVars, msg, forwarderVars>>

---------------------------------------------------------------------------
(* Specifications *)


InitRest ==
    /\ integration_test_token = None
    /\ cache = <<>>
    /\ ruleWrites = 0
    /\ pc = "idle"
    /\ msg = NoMessage
    /\ expected_token = None
    /\ spam = FALSE
    /\ results = <<>>
    /\ raised = NoError
    /\ lookups = <<>>
    /\ db_outcome = "ok"
    /\ batch = <<>>
    /\ idx = 1
    /\ record_results = <<>>
    /\ delivery_error = <<>>
    /\ gmail_imports = <<>>
    /\ retry_queue = <<>>
    /\ queue_failed = {}
    /\ batchItemFailures = <<>>
    /\ events_to_publish = <<>>
    /\ success_count = 0
    /\ failure_count = 0
    /\ tagging = NotTagged
    /\ publishing = NotPublished
    /\ fn_arg = NoCall
    /\ fn_ret = NoCall

\* the router: a process that serves invocations while rules change; its
\* bypass token is configured and loads
InitCommon ==
    /\ table = [k \in RuleKeys |-> NoItem]
    /\ InitRest

Init ==
    /\ ssmParameter = Tok
    /\ RETRY_QUEUE_URL = TRUE
    /\ InitCommon

\* The router while rules are written and deleted under every key; the
\* receipt of its messages names no S3 object, so nothing is tagged, and
\* the event bus accepts every event (SpecHandler has the stored messages
\* and the failing services).
Next ==
    \/ /\ pc = "idle"
       /\ \E m \in RouterMessages, db \in DbOutcomes :
             DecideAction(m, ssmParameter, db, "not stored", TRUE, "ok")
    \/ /\ pc = "idle"
       /\ \E k \in RuleKeys, item \in ItemSet : PutRule(k, item)
    \/ /\ pc = "idle"
       /\ \E k \in RuleKeys : DeleteRule(k)
    \/ Finish

Spec == Init /\ [][Next]_vars

\* The router in an environment in which S3, CloudWatch and EventBridge may
\* fail (put_metric_data is called only after a tagging failure); rules
\* are written for the tagged recipient's own key.
NextHandler ==
    \/ /\ pc = "idle"
       /\ \E m \in RouterMessages, db \in DbOutcomes, tag \in TagOutcomes,
             bus \in BusOutcomes :
          \E metric \in IF tag_s3_object(tag) = NoError THEN {TRUE}
                         ELSE BOOLEAN :
             DecideAction(m, ssmParameter, db, tag, metric, bus)
    \/ /\ pc = "idle"
       /\ \E item \in {LegacyForward, LegacyJmap, MigratedForward,
                        ForwardAndStore} :
             PutRule(RouteKey(AddrTagged), item)
    \/ Finish
SpecHandler == Init /\ [][NextHandler]_vars

\* the security gate alone, over every verdict bundle
InitGate ==
    /\ ssmParameter \in SsmValues
    /\ RETRY_QUEUE_URL = TRUE
    /\ InitCommon

NextGate ==
    \/ /\ pc = "idle"
       /\ \E m \in GateMessages, got \in SsmOutcomes(ssmParameter) :
             CheckSpamCall(m, got)
    \/ Finish

SpecGate == InitGate /\ [][NextGate]_vars

\* is_token_expired_error alone, over exceptions of every class and message
NextClassify ==
    \/ /\ pc = "idle"
       /\ \E e \in ClassifyInputs : IsTokenExpiredErrorCall(e)
    \/ Finish

SpecClassify == Init /\ [][NextClassify]_vars

\* normalize_email_address alone, over every short string
NextNormalize ==
    \/ /\ pc = "idle"
       /\ \E x \in AddressStrings : NormalizeCall(x)
    \/ /\ pc = "idle"
       /\ \E local \in LocalStrings, tag \in LocalStrings,
             domain \in DomainStrings : NormalizeBoth(local, tag, domain)
    \/ Finish

SpecNormalize == Init /\ [][NextNormalize]_vars

\* sanitize_tag_value alone, over every short value and max_length
NextSanitize ==
    \/ /\ pc = "idle"
       /\ \E value \in TagValues, max_length \in MaxLengths :
             SanitizeCall(value, max_length)
    \/ Finish

SpecSanitize == Init /\ [][NextSanitize]_vars

\* The migration script: runs of migrate_rules, dry and live, over every
\* small table, and convert_rule alone over the legacy items
InitMigrate ==
    /\ ssmParameter = Tok
    /\ RETRY_QUEUE_URL = TRUE
    /\ table \in MigrateTables
    /\ InitRest

NextMigrate ==
    \/ /\ pc = "idle"
       /\ \E scan_order \in ScanOrders, page_size \in 1..MaxPageSize,
             dry_run \in BOOLEAN :
          \E failing \in IF dry_run THEN {{}} ELSE SUBSET MigrateKeys :
             MigrateRules(scan_order, page_size, dry_run, failing)
    \/ /\ pc = "idle"
       /\ \E old_item \in LegacyItems : ConvertCall(old_item)
    \/ Finish

SpecMigrate == InitMigrate /\ [][NextMigrate]_vars

\* the bouncer, fed with what the router emits for bounce decisions
NextBouncer ==
    \/ /\ pc = "idle"
       /\ \E records \in SeqsUpTo(BounceMessages, MaxBounceRecords) \ {<<>>},
             subsegment \in BOOLEAN, send \in {"ok", "ClientError"} :
             BouncerInvoke(records, subsegment, send)
    \/ Finish

SpecBouncer == Init /\ [][NextBouncer]_vars

\* the Gmail forwarder: one batch invocation after another
InitForwarder ==
    /\ ssmParameter = Tok
    /\ RETRY_QUEUE_URL \in BOOLEAN
    /\ InitCommon

NextForwarder ==
    \/ /\ pc = "idle"
       /\ \E rs \in Batches, b \in BuildOutcomes :
             \E sentAll \in [DOMAIN rs -> BOOLEAN] : ForwarderInvoke(rs, b, sentAll)
    \/ /\ pc = "records"
       /\ idx <= Len(batch)
       /\ \E s3 \in S3Outcomes, sentAll \in [DOMAIN batch -> BOOLEAN] :
             \E outs \in IF s3 = NoExc THEN TargetRuns(targets_of(batch[idx]))
                                       ELSE {<<>>} :
                ProcessRecord(s3, outs, sentAll)
    \/ ForwarderReturn
    \/ ForwarderFinish

SpecForwarder == InitForwarder /\ [][NextForwarder]_vars

---------------------------------------------------------------------------
(* What the specification expects of a resolution *)

\* an ActionSpec without target
NoTarget == NoDestination

\* the ActionSpec list of a stored rule, whichever its encoding
ActionSpecs(item) ==
    IF HasAttr(item, "actions")
    THEN [i \in DOMAIN item.actions |->
            [type |-> item.actions[i].type,
             target |-> Attr(item.actions[i], "target", NoTarget)]]
    ELSE <<[type |-> Attr(item, "action", "bounce"),
            target |-> IF Attr(item, "target", "") = ""
                       THEN NoTarget ELSE item.target]>>

ItemEnabled(item) == item # NoItem /\ Attr(item, "enabled", TRUE)

\* the tiers of a recipient: exact, normalized when different, *@domain, *
Tiers(recipient) == generate_lookup_keys(recipient)

\* the positions of the tiers at which tbl holds an enabled rule
EnabledTiers(tbl, recipient) ==
    {i \in DOMAIN Tiers(recipient) : ItemEnabled(GetItem(tbl, Tiers(recipient)[i]))}

\* the tiers at which tbl holds a disabled rule
DisabledTiers(tbl, recipient) ==
    {i \in DOMAIN Tiers(recipient) :
        /\ GetItem(tbl, Tiers(recipient)[i]) # NoItem
        /\ ~ItemEnabled(GetItem(tbl, Tiers(recipient)[i]))}

DefaultActions == <<[type |-> "store", target |-> NoTarget]>>

\* the actions the first enabled rule in tier order gives, the default
\* without one
ExpectedActions(tbl, recipient) ==
    IF EnabledTiers(tbl, recipient) = {}
    THEN DefaultActions
    ELSE ActionSpecs(GetItem(tbl, Tiers(recipient)[Min(EnabledTiers(tbl, recipient))]))

\* a result of decide_action as an ActionSpec
AsActionSpec(res) ==
    [type |-> res.action,
     target |-> IF HasAttr(res, "destination") /\ res.destination # ""
                THEN res.destination ELSE NoTarget]

\* the results decide_action returned for the recipient at position i, the
\* results being grouped by recipient in the recipients' order: those from
\* position Before(i) + 1 on
RECURSIVE ExpectedFlat(_, _)
ExpectedFlat(tbl, recipients) ==
    IF recipients = <<>> THEN <<>>
    ELSE [j \in DOMAIN ExpectedActions(tbl, Head(recipients)) |->
             [type |-> ExpectedActions(tbl, Head(recipients))[j].type,
              target |-> ExpectedActions(tbl, Head(recipients))[j].target,
              recipient |-> Head(recipients)]]
         \o ExpectedFlat(tbl, Tail(recipients))

\* the results as (type, target, recipient) triples
ResultsFlat ==
    [j \in DOMAIN results |->
        [type |-> AsActionSpec(results[j]).type,
         target |-> AsActionSpec(results[j]).target,
         recipient |-> results[j].target]]

\* the results for one recipient
ResultsOf(recipient) ==
    SelectSeq(ResultsFlat, LAMBDA x : x.recipient = recipient)
ExpectedOf(tbl, recipient) ==
    SelectSeq(ExpectedFlat(tbl, msg.recipients), LAMBDA x : x.recipient = recipient)

\* how often the recipient occurs in the message
Occurrences(recipient) ==
    Cardinality({i \in DOMAIN msg.recipients : msg.recipients[i] = recipient})

RecipientSet == {msg.recipients[i] : i \in DOMAIN msg.recipients}

\* decide_action returned for a message; the rule store answered every read
Resolved == pc = "decide_action" /\ db_outcome = "ok"

---------------------------------------------------------------------------
(* Claims *)

\* C1: a message the security gate blocks gets, for every recipient, exactly
\* one action, bounce with reason security, whatever rules the table holds,
\* and no rule is looked up for it.
C1_SecurityBlockOverridesRules ==
    (pc = "decide_action" /\ spam) =>
        /\ raised = NoError
        /\ Len(results) = Len(msg.recipients)
        /\ \A i \in DOMAIN results :
              results[i] = [action |-> "bounce", target |-> msg.recipients[i],
                            reason |-> "security"]
        /\ lookups = <<>>

\* a blocked message with two recipients, one of which an enabled forward
\* rule matches
C1_Witness ==
    /\ pc = "decide_action" /\ spam
    /\ Len(msg.recipients) = 2
    /\ \E r \in RecipientSet :
          /\ EnabledTiers(table, r) # {}
          /\ ExpectedActions(table, r)[1].type = "forward-to-gmail"
    /\ Len(results) = 2

\* C2: for an unblocked message, every recipient that some enabled rule
\* matches gets the actions of the first enabled rule in the order exact
\* address, normalized address, *@domain, *: an enabled exact rule beats every
\* wildcard, and a+t@x without an exact rule gets the rule keyed a@x.
C2_FirstEnabledRuleInTierOrder ==
    (Resolved /\ ~spam) =>
        \A r \in RecipientSet :
            EnabledTiers(table, r) # {} =>
                /\ raised = NoError
                /\ ResultsOf(r) = ExpectedOf(table, r)

\* C3: every recipient of a message gets at least one action, and a
\* recipient of an unblocked message that no enabled rule matches at any tier
\* gets exactly one store action without target.
C3_NeverEmpty ==
    Resolved =>
        \A r \in RecipientSet :
            /\ Len(ResultsOf(r)) >= Occurrences(r)
            /\ (~spam /\ EnabledTiers(table, r) = {}) =>
                  /\ Len(ResultsOf(r)) = Occurrences(r)
                  /\ \A j \in DOMAIN ResultsOf(r) :
                        /\ ResultsOf(r)[j].type = "store"
                        /\ ResultsOf(r)[j].target = NoTarget

\* C6: when every recipient of an unblocked message matches an enabled rule,
\* decide_action returns, recipient after recipient, the N actions of the
\* recipient's rule in rule order with their targets: R * N results for R
\* recipients of an N-action rule.
C6_ActionListVerbatim ==
    (Resolved /\ ~spam /\ \A r \in RecipientSet : EnabledTiers(table, r) # {}) =>
        /\ raised = NoError
        /\ Len(results) = Len(ExpectedFlat(table, msg.recipients))
        /\ ResultsFlat = ExpectedFlat(table, msg.recipients)

\* C7: a legacy {action, target} item and convert_rule of it are turned by
\* lookup_routing_rule into the same actions, so decide_action on a cold
\* process returns for the message the same results before and after the
\* table is migrated.
C7_EncodingsNormalizeAlike ==
    /\ \A k \in DOMAIN table :
          (table[k] # NoItem /\ ~is_already_migrated(table[k])) =>
              /\ RuleOfItem(convert_rule(table[k])).action = RuleOfItem(table[k]).action
              /\ RuleOfItem(convert_rule(table[k])).target = RuleOfItem(table[k]).target
    /\ Resolved =>
          LET before == decide_action(msg, expected_token, <<>>, table, "ok")
              after  == decide_action(msg, expected_token, <<>>, migrate_rules(table), "ok")
          IN  /\ after.exc = before.exc
              /\ after.results = before.results

\* C8: for an unblocked message, a recipient with a disabled rule at some
\* tier gets the actions of the first enabled rule of the other tiers, the
\* default store action when there is none; never those of the disabled rule.
C8_DisabledRuleSkipped ==
    (Resolved /\ ~spam) =>
        \A r \in RecipientSet :
            DisabledTiers(table, r) # {} =>
                /\ raised = NoError
                /\ ResultsOf(r) = ExpectedOf(table, r)

\* the hard-fail test of the specification on the verdicts of a message
IsFail(verdict) == Lower(verdict) = fail
HardFail(m) ==
    \/ IsFail(m.spamVerdict)
    \/ IsFail(m.virusVerdict)
    \/ IsFail(m.dkimVerdict)
    \/ IsFail(m.spfVerdict)
    \/ (IsFail(m.dmarcVerdict) /\ m.dmarcPolicy = "reject")

\* the positions of the headers of m named X-Integration-Test-Token, in any
\* letter case
TokenHeaders(m) ==
    {i \in DOMAIN m.headers : Lower(m.headers[i].name) = TokenHeaderName}

\* the value of the bypass-token header of m: of the first header with
\* that name, the one check_spam reads (m has such a header)
ProvidedToken(m) == m.headers[Min(TokenHeaders(m))].value

\* no valid bypass applies: no token is configured, the configured token is
\* empty or could not be loaded, the message has no bypass-token header, or
\* the header's value differs from the configured token
NoValidBypass(m, expected) ==
    \/ expected = None
    \/ expected = <<>>
    \/ TokenHeaders(m) = {}
    \/ ProvidedToken(m) # expected

\* C9: when no valid bypass applies, check_spam returns true exactly when
\* the spam, virus, dkim or spf verdict is fail, or the dmarc verdict is fail
\* and dmarcPolicy is reject.
C9_VerdictsDecideWithoutBypass ==
    (pc = "check_spam" /\ NoValidBypass(msg, expected_token)) =>
        (spam <=> HardFail(msg))

\* a dmarc fail under policy quarantine, every other verdict passing, with a
\* token configured and a header whose value differs from it: not blocked
C9_Witness ==
    /\ pc = "check_spam"
    /\ expected_token = Tok
    /\ TokenHeaders(msg) # {}
    /\ ProvidedToken(msg) # expected_token
    /\ msg.dmarcVerdict = FAIL /\ msg.dmarcPolicy = "quarantine"
    /\ msg.spamVerdict = PASS /\ msg.virusVerdict = PASS
    /\ msg.dkimVerdict = PASS /\ msg.spfVerdict = PASS
    /\ ~spam

\* C10: with a token configured, a message whose bypass-token header (name
\* in any letter case) carries exactly the configured token is not blocked,
\* whatever its verdicts; a message whose header carries the token in another
\* letter case is blocked exactly when its verdicts hard-fail.
C10_BypassTokenCaseSensitive ==
    (pc = "check_spam" /\ Truthy(expected_token) /\ TokenHeaders(msg) # {}) =>
        /\ ProvidedToken(msg) = expected_token => ~spam
        /\ (/\ ProvidedToken(msg) # expected_token
            /\ Lower(ProvidedToken(msg)) = Lower(expected_token))
              => (spam <=> HardFail(msg))

\* the exact token under the header name in mixed case, on a message whose
\* five verdicts all fail under policy reject: not blocked
C10_Witness ==
    /\ pc = "check_spam"
    /\ expected_token = Tok
    /\ TokenHeaders(msg) # {}
    /\ msg.headers[Min(TokenHeaders(msg))].name = TokenHeaderMixed
    /\ ProvidedToken(msg) = Tok
    /\ msg.spamVerdict = FAIL /\ msg.virusVerdict = FAIL
    /\ msg.dkimVerdict = FAIL /\ msg.spfVerdict = FAIL
    /\ msg.dmarcVerdict = FAIL /\ msg.dmarcPolicy = "reject"
    /\ ~spam

\* the terminal outcomes of record i when the forwarder's invocation is over
InvocationOver == pc \in {"returned", "raised"}
Delivered(i) ==
    i <= Len(record_results) /\ record_results[i].action = "delivered"
QueuedForRetry(i) == \E j \in DOMAIN retry_queue : retry_queue[j].record = i
\* the transport redelivers i: it is in batchItemFailures, or the whole
\* invocation raised
ReportedFailed(i) ==
    \/ pc = "raised"
    \/ \E j \in DOMAIN batchItemFailures : batchItemFailures[j] = i

\* the documented signals of CredentialExpired
CredentialExpired(e) ==
    \/ e.cls = "RefreshError"
    \/ e.status \in {401, 403}
    \/ e.kw

\* C4: a record whose delivery fails with a CredentialExpired error while the
\* retry channel takes what is sent to it ends QUEUED_FOR_RETRY and is not
\* reported to the transport as failed.
C4_CredentialExpiredQueued ==
    InvocationOver =>
        \A i \in DOMAIN batch :
            (/\ delivery_error[i] # NoExc
             /\ CredentialExpired(delivery_error[i])
             /\ RETRY_QUEUE_URL
             /\ i \notin queue_failed)
                => (QueuedForRetry(i) /\ ~ReportedFailed(i))

\* C5: when the invocation is over, every record of the batch has exactly
\* one of the outcomes DELIVERED, QUEUED_FOR_RETRY, FAILED; a delivered
\* record is neither on the retry channel nor reported as failed.
C5_ExactlyOneTerminalOutcome ==
    InvocationOver =>
        \A i \in DOMAIN batch :
            /\ Delivered(i) \/ QueuedForRetry(i) \/ ReportedFailed(i)
            /\ ~(Delivered(i) /\ QueuedForRetry(i))
            /\ ~(Delivered(i) /\ ReportedFailed(i))
            /\ ~(QueuedForRetry(i) /\ ReportedFailed(i))

\* C11: is_token_expired_error returns true for a RefreshError, for an
\* HttpError of status 401 or 403, and for an error whose message contains
\* one of the seven keywords in any letter case; it returns false for an
\* error with none of these signals.
SameLetter(a, b) == Lower(<<a>>) = Lower(<<b>>)
Mentions(message, keyword) ==
    \E i \in 1..Len(message) :
        /\ i + Len(keyword) - 1 <= Len(message)
        /\ \A j \in 1..Len(keyword) : SameLetter(message[i + j - 1], keyword[j])
DocumentedKeywords ==
    {expiration_keywords[j] : j \in DOMAIN expiration_keywords}
HasExpirySignal(e) ==
    \/ e.cls = "RefreshError"
    \/ e.cls = "HttpError" /\ e.status \in {401, 403}
    \/ \E k \in DocumentedKeywords : Mentions(e.message, k)
C11_ClassifiesBySignal ==
    pc = "is_token_expired_error" => (fn_ret <=> HasExpirySignal(fn_arg))
\* a ValueError whose message holds a keyword in upper case is classified
\* as token expiry
C11_Witness ==
    /\ pc = "is_token_expired_error"
    /\ fn_arg.cls = "ValueError"
    /\ fn_arg.message = MsgPrefix \o Upper(expiration_keywords[3]) \o MsgSuffix
    /\ fn_ret = TRUE

C13_OtherErrorFails ==
    InvocationOver =>
        \A i \in DOMAIN batch :
            (delivery_error[i] # NoExc /\ ~CredentialExpired(delivery_error[i]))
                => (ReportedFailed(i) /\ ~QueuedForRetry(i))

\* C14: every message on the retry channel has as its body the body of the
\* record it was queued for, as that record came in; the time, the error
\* class and the attempt count are message attributes next to the body.
C14_RetryBodyVerbatim ==
    \A j \in DOMAIN retry_queue :
        /\ retry_queue[j].record \in DOMAIN batch
        /\ retry_queue[j].MessageBody = batch[retry_queue[j].record].body
        /\ {"original_timestamp", "error_type", "attempt_count"}
               \subseteq DOMAIN retry_queue[j].MessageAttributes
\* process_sqs_record queued the one record of a batch for retry
C14_Witness ==
    /\ pc = "returned"
    /\ Len(batch) = 1
    /\ record_results = <<[status |-> "ok", action |-> "queued_for_retry"]>>
    /\ Len(retry_queue) = 1
    /\ retry_queue[1].MessageBody = Body(1)

\* C15: the attempt count of a message on the retry channel is one more
\* than the attempt count of the record it was queued for: 1 for a record
\* that fails for the first time, more than its own count for a record
\* that was replayed from the retry channel.
C15_AttemptCountIncrements ==
    \A j \in DOMAIN retry_queue :
        retry_queue[j].MessageAttributes.attempt_count
            = batch[retry_queue[j].record].attempt + 1

\* C16: in a batch, the failure of one record never makes the invocation
\* raise and never has a record that was delivered or queued for retry
\* reported as failed in batchItemFailures.
InBatchItemFailures(i) ==
    \E j \in DOMAIN batchItemFailures : batchItemFailures[j] = i
RecordFailed == \E i \in DOMAIN batch : delivery_error[i] # NoExc
C16_PartialFailure ==
    InvocationOver =>
        /\ ~(pc = "raised" /\ RecordFailed)
        /\ \A i \in DOMAIN batch :
              (Delivered(i) \/ QueuedForRetry(i)) => ~InBatchItemFailures(i)

\* C17: what an invocation returns is what a process that has looked up
\* nothing before returns for the same message and the same rule table: no
\* lookup result of an earlier invocation is used.
C17_NoCrossInvocationCache ==
    Resolved =>
        \E fresh \in {decide_action(msg, expected_token, <<>>, table, "ok")} :
            /\ results = fresh.results
            /\ raised = fresh.exc

\* C18: when the resolution of a message raises, the router still emits a
\* decision for the message, the default store with no forward and no
\* bounce, and counts the message in failure_count, not in success_count.
FellBack == pc = "decide_action" /\ raised # NoError
C18_FallbackDecisionEmitted ==
    FellBack =>
        /\ Len(events_to_publish) = 1
        /\ events_to_publish[1].ses = msg
        /\ events_to_publish[1].actions["store"].count > 0
        /\ events_to_publish[1].actions["forward-to-gmail"].count = 0
        /\ events_to_publish[1].actions["bounce"].count = 0
        /\ failure_count = 1
        /\ success_count = 0

\* C19: an invocation in which a lookup in the rule store failed with
\* anything but a plain not-found ends with an error raised out of the
\* resolution; the failed lookup is not taken for a missing rule.
C19_LookupErrorPropagates ==
    (pc = "decide_action" /\ db_outcome # "ok") => raised # NoError

\* C20: normalize_email_address is idempotent on every string; it returns
\* an address without '@' as it came; it leaves the domain, the text after
\* the first '@', as it was; and it maps local+tag@domain and local@domain
\* to the same address for every local part and tag (texts without '@')
\* and every domain.
HasAt(x) == \E i \in DOMAIN x : x[i] = "@"
DomainOf(x) ==
    CHOOSE d \in {SubSeq(x, i + 1, Len(x)) : i \in DOMAIN x} :
        \E l \in {SubSeq(x, 1, i - 1) : i \in DOMAIN x} :
            ~HasAt(l) /\ x = l \o <<"@">> \o d
C20_NormalizeIdempotentTagBlind ==
    /\ pc = "normalize_email_address" =>
          /\ fn_ret.twice = fn_ret.once
          /\ ~HasAt(fn_arg) => fn_ret.once = fn_arg
          /\ HasAt(fn_arg) =>
                (HasAt(fn_ret.once) /\ DomainOf(fn_ret.once) = DomainOf(fn_arg))
    /\ pc = "normalize_tagged_and_plain" => fn_ret.tagged = fn_ret.plain
\* a++b@b and a+@b, whose local part holds a '+' of its own, both become
\* a@b
C20_Witness ==
    /\ pc = "normalize_tagged_and_plain"
    /\ fn_arg = [local |-> <<"a", "+">>, tag |-> <<"b">>, domain |-> <<"b">>]
    /\ fn_ret.tagged = <<"a", "@", "b">>
    /\ fn_ret.plain = <<"a", "@", "b">>

\* C23: for every value, sanitize_tag_value returns a string of allowed
\* characters only (A-Z a-z 0-9 space + - = . _ : / @), with no two
\* underscores in a row and no underscore or whitespace at either end.
SafeTagChars ==
    {"A", "B", "C", "D", "E", "F", "G", "H", "I", "J", "K", "L", "M", "N",
     "O", "P", "Q", "R", "S", "T", "U", "V", "W", "X", "Y", "Z",
     "a", "b", "c", "d", "e", "f", "g", "h", "i", "j", "k", "l", "m", "n",
     "o", "p", "q", "r", "s", "t", "u", "v", "w", "x", "y", "z",
     "0", "1", "2", "3", "4", "5", "6", "7", "8", "9",
     " ", "+", "-", "=", ".", "_", ":", "/", "@"}
EdgeChars == {"_", " ", "\t", "\n"}
C23_SanitizedIsSafe ==
    pc = "sanitize_tag_value" =>
        /\ \A i \in DOMAIN fn_ret : fn_ret[i] \in SafeTagChars
        /\ \A i \in DOMAIN fn_ret :
              (i > 1 /\ fn_ret[i] = "_") => fn_ret[i - 1] # "_"
        /\ fn_ret # <<>> =>
              (fn_ret[1] \notin EdgeChars /\ fn_ret[Len(fn_ret)] \notin EdgeChars)

\* C28: for every value and every max_length, sanitize_tag_value returns a
\* string of at most max_length characters.
C28_AtMostMaxLength ==
    pc = "sanitize_tag_value" => Len(fn_ret) <= fn_arg.max_length


---------------------------------------------------------------------------
(* Tagging and routing *)

TaggingAttempted ==
    pc = "decide_action" /\ tagging.put_object_tagging # "not called"

\* C21: Tagging the stored object never affects routing.  Whenever
\* decide_action has called put_object_tagging, it raises nothing and
\* returns the decisions that the rules give for the recipients, whether the
\* call succeeded, failed with NoSuchKey or failed otherwise.  Success and
\* NoSuchKey publish no failure metric; any other failure calls
\* put_metric_data, and the failure is counted exactly when that call
\* succeeds (its own failure is swallowed).
C21_TaggingNeverAffectsRouting ==
    TaggingAttempted =>
        /\ raised = NoError
        /\ results = decide_action(msg, expected_token, cache, table,
                                   "ok").results
        /\ Len(results) = Len(msg.recipients)
        /\ tagging.put_object_tagging \in {"ok", "NoSuchKey"} =>
               /\ tagging.put_metric_data = "not called"
               /\ tagging.S3TaggingFailures = 0
        /\ tagging.put_object_tagging \notin {"ok", "NoSuchKey"} =>
               /\ tagging.put_metric_data \in {"ok", "failed"}
               /\ tagging.S3TaggingFailures = 1
                      <=> tagging.put_metric_data = "ok"

\* put_object_tagging was refused and put_metric_data failed too, and the
\* two recipients are routed all the same: one forwarded, one stored
C21_Witness ==
    /\ TaggingAttempted
    /\ tagging.put_object_tagging = "AccessDenied"
    /\ tagging.put_metric_data = "failed"
    /\ Len(results) = 2
    /\ results[1].action = "forward-to-gmail"
    /\ results[2].action = "store"


---------------------------------------------------------------------------
(* Dispatch batches *)

\* the batches of the event lambda_handler built
Batches_ == events_to_publish[1].actions
ForwardThenStore ==
    <<[type |-> "forward-to-gmail", target |-> "g@gmail.com"],
      [type |-> "store", target |-> NoTarget]>>

\* the batches group the list of results: per action type the number of
\* results of the type and these results in their order
BatchesGroup(batches, routing_results) ==
    /\ \A a \in CountedActions :
          LET hits == SelectSeq(routing_results, LAMBDA r : r.action = a)
          IN  /\ batches[a].count = Len(hits)
              /\ batches[a].targets = [i \in DOMAIN hits |-> DestOf(hits[i])]
    /\ batches["store"].count + batches["forward-to-gmail"].count
          + batches["bounce"].count = Len(routing_results)

\* C22: the event built for a message holds, for every action type, a batch
\* whose count is the number of (recipient, action) results of that type and
\* whose targets are exactly those results in recipient order, the counts
\* summing to the number of results; and a message of two recipients that
\* both match a forward-to-gmail + store rule gets forward count 2 and store
\* count 2.
C22_BatchesGroupResults ==
    (Resolved /\ ~spam) =>
        /\ events_to_publish # <<>> => BatchesGroup(Batches_, results)
        /\ (/\ Len(msg.recipients) = 2
            /\ \A r \in RecipientSet :
                  ExpectedActions(table, r) = ForwardThenStore) =>
               /\ events_to_publish # <<>>
               /\ Batches_["forward-to-gmail"].count = 2
               /\ Batches_["store"].count = 2


---------------------------------------------------------------------------
(* Audit strings *)

ForwardStoreText ==
    <<"f", "o", "r", "w", "a", "r", "d", "-", "t", "o", "-", "g", "m", "a",
      "i", "l", " ", "s", "t", "o", "r", "e">>

\* C24: the 'action' tag written to the stored object is the action types
\* of all results, in their order, joined by single spaces, and the 'target'
\* tag is their targets joined likewise; for one recipient whose rule is
\* forward-to-gmail + store the action tag is 'forward-to-gmail store'.
C24_TagsSpaceJoined ==
    (TaggingAttempted /\ db_outcome = "ok") =>
        /\ tagging.routing_tags.action =
              Join([i \in DOMAIN results |-> TextOf[results[i].action]],
                   <<" ">>)
        /\ tagging.routing_tags.target =
              Join([i \in DOMAIN results |-> target_value(results[i])],
                   <<" ">>)
        /\ (/\ ~spam
            /\ Len(msg.recipients) = 1
            /\ ExpectedActions(table, msg.recipients[1]) = ForwardThenStore) =>
               tagging.routing_tags.action = ForwardStoreText


---------------------------------------------------------------------------
(* The migration *)

\* a run of migrate_rules takes place in this step
MigrationRuns == pc = "idle" /\ pc' = "migrate_rules"
\* the key is ROUTE# followed by an address
IsRouteKey(k) == k \in {RouteKey(r) : r \in Recipients}
\* the keys put_item was called for
PutKeys(ret) == {ret.put_item[i] : i \in DOMAIN ret.put_item}
\* the rules of a table that hold an actions list, and those that do not
MigratedRules(tbl) ==
    {k \in DOMAIN tbl : /\ IsRouteKey(k)
                        /\ tbl[k] # NoItem
                        /\ HasAttr(tbl[k], "actions")}
LegacyRules(tbl) ==
    {k \in DOMAIN tbl : /\ IsRouteKey(k)
                        /\ tbl[k] # NoItem
                        /\ ~HasAttr(tbl[k], "actions")}

C26_DryRunWritesNothing ==
    [][MigrationRuns =>
          /\ fn_arg'.dry_run =>
                 /\ fn_ret'.put_item = <<>>
                 /\ table' = table
                 /\ fn_ret'.stats.migrated = 0
                 /\ fn_ret'.stats.would_migrate =
                        Cardinality(LegacyRules(table))
          /\ \A k \in DOMAIN table :
                 ~IsRouteKey(k) =>
                     table'[k] = table[k] /\ k \notin PutKeys(fn_ret')]_vars

\* a dry run in pages of one item over two legacy rules and the
\* credentials item
C26_Witness ==
    /\ pc = "migrate_rules"
    /\ fn_arg.dry_run
    /\ fn_arg.page_size = 1
    /\ fn_ret.stats.scanned = 3
    /\ fn_ret.stats.would_migrate = 2
    /\ fn_ret.stats.skipped_non_route = 1
    /\ LegacyRules(table) = {RouteKey(AddrPlain), RouteKey(AddrTagged)}

\* C27: convert_rule of a legacy item keeps every attribute other than
\* action, target and updated_at, has neither action nor target, and has an
\* actions list of exactly one entry, whose type is the old action and
\* which has a target, the old one, exactly when the old target was
\* non-empty.
C27_ConvertRuleFrame ==
    pc = "convert_rule" =>
        /\ DOMAIN fn_ret = (DOMAIN fn_arg \ {"action", "target"})
                               \cup {"actions", "updated_at"}
        /\ \A a \in DOMAIN fn_arg \ {"action", "target", "updated_at"} :
               fn_ret[a] = fn_arg[a]
        /\ Len(fn_ret.actions) = 1
        /\ HasAttr(fn_arg, "action") => fn_ret.actions[1].type = fn_arg.action
        /\ HasAttr(fn_ret.actions[1], "target")
               <=> (HasAttr(fn_arg, "target") /\ fn_arg.target # "")
        /\ HasAttr(fn_ret.actions[1], "target") =>
               fn_ret.actions[1].target = fn_arg.target

\* a disabled store rule with an empty target and a description
C27_Witness ==
    /\ pc = "convert_rule"
    /\ fn_arg = [action |-> "store", target |-> "", enabled |-> FALSE,
                 description |-> "d", updated_at |-> "t0"]
    /\ fn_ret = [actions |-> <<[type |-> "store"]>>, enabled |-> FALSE,
                 description |-> "d", updated_at |-> "now"]


---------------------------------------------------------------------------
(* Router and bouncer *)

\* C30: every bounce decision of the router is accepted by the bouncer.
\* For a record whose bounce targets carry the reasons the router gives,
\* 'security' or 'policy', whose sender address is usable and whose
\* send_email calls succeed, process_bounce_request raises nothing and
\* sends one notification per target, and the record is not reported in
\* batchItemFailures.
C30_BouncerAcceptsRouterReasons ==
    pc = "bouncer" =>
        \A i \in DOMAIN fn_arg.Records :
            LET targets == fn_arg.Records[i].detail.actions["bounce"].targets
            IN  (/\ fn_arg.Records[i].detail.sender
                 /\ fn_arg.send_email = "ok"
                 /\ \A j \in DOMAIN targets :
                       targets[j].reason \in {"security", "policy"}) =>
                    /\ fn_ret.raised[i] = NoError
                    /\ Len(fn_ret.sent[i]) = Len(targets)
                    /\ \A j \in DOMAIN fn_ret.batchItemFailures :
                           fn_ret.batchItemFailures[j] # i


---------------------------------------------------------------------------
(* No message lost *)

\* C29: no inbound message is lost silently by the router.  Whenever
\* lambda_handler returns normally for an event of one SNS record, exactly
\* one 'Email Routing Decision' event for the record has been accepted by
\* the event bus; when the enrichment raised or the bus rejected the
\* event, the invocation fails.
C29_NoMessageLostSilently ==
    pc = "decide_action" =>
        /\ publishing.response = "returned" => publishing.accepted = 1
        /\ (raised # NoError \/ publishing.put_events = "FailedEntry") =>
               publishing.response = "raised"

====
